---- MODULE Spec2Model ----
(***************************************************************************)
(* NEORV32 TRNG hardware driver (sw/lib/source/neorv32_trng.c).            *)
(*                                                                         *)
(* A 32-bit register word is modelled as the set of its set bit positions  *)
(* (a subset of 0..31): OR is union, AND is intersection, 1<<n is {n}.     *)
(* The caller's uint8_t output location and the int return values are      *)
(* integers.  Every driver function is a sequence of steps of a calling    *)
(* context; each step holds at most one access of the memory-mapped        *)
(* register.                                                               *)
(***************************************************************************)
EXTENDS Integers, Sequences, FiniteSets, TLC

\* ------------------------------------------------------------------ layout
\* Bit positions of NEORV32_TRNG.CTRL and NEORV32_SYSINFO.SOC (driver header).
TRNG_CTRL_DATA_LSB == 0
TRNG_CTRL_DATA_MSB == 7
TRNG_CTRL_FIFO_CLR == 28
TRNG_CTRL_SIM_MODE == 29
TRNG_CTRL_EN == 30
TRNG_CTRL_VALID == 31
SYSINFO_SOC_IO_TRNG == 24

\* Iterations of each busy-wait loop of neorv32_trng_enable.
DelayIters == 256

\* ------------------------------------------------------------------ bounds
\* A reserved control-register bit just above the DATA field, and a second
\* capability bit of the SOC register, used to populate the initial states.
ReservedBit == 8
OtherSocBit == 16

\* ------------------------------------------------------------- word algebra
WordBits == 0..31
\* 1 << n
Shl1(n) == {n}
\* w >> k (logical, 32 bit)
Shr(w, k) == {b - k : b \in {x \in w : x >= k}}
BitOr(a, b) == a \cup b
BitAnd(a, b) == a \cap b
NonZero(w) == w # {}

RECURSIVE WordValue(_)
\* numeric value of a word whose set bits are all below 8
WordValue(w) ==
  IF w = {} THEN 0
  ELSE LET b == CHOOSE x \in w : TRUE IN 2^b + WordValue(w \ {b})

\* (uint8_t) w : keep the low eight bits
ToUint8(w) == WordValue({b \in w : b < 8})

\* ------------------------------------------------------------ register file
\* Bits of CTRL that software can write; all others are read-only status.
Writable == {TRNG_CTRL_EN, TRNG_CTRL_FIFO_CLR}
DataField == TRNG_CTRL_DATA_LSB..TRNG_CTRL_DATA_MSB

\* Effect of a store of v to CTRL on the value later reads return.
RegWrite(old, v) == (old \ Writable) \cup (v \cap Writable)

\* ------------------------------------------------------- driver expressions
\* neorv32_trng_available: SOC & (1 << SYSINFO_SOC_IO_TRNG) ? 1 : 0
AvailableRetMut(s) == IF NonZero(s) THEN 1 ELSE 0
AvailableRet(s) == IF NonZero(BitAnd(s, Shl1(SYSINFO_SOC_IO_TRNG))) THEN 1 ELSE 0

\* neorv32_trng_get: ct_reg & (1<<TRNG_CTRL_VALID).  The int constant 1<<31 is
\* converted to uint32_t for the &; the RISC-V GCC build gives it the single
\* value 0x80000000.
GetValid(w) == NonZero(BitAnd(w, Shl1(TRNG_CTRL_VALID)))

\* neorv32_trng_get: (uint8_t)(ct_reg >> TRNG_CTRL_DATA_LSB)
GetByteMut(w) == WordValue({b \in Shr(w, TRNG_CTRL_DATA_LSB) : b < 9})
GetByte(w) == ToUint8(Shr(w, TRNG_CTRL_DATA_LSB))

\* neorv32_trng_get: the value of *data after the call
GetDataMut(w, old) == IF GetValid(w) THEN GetByte(w) ELSE 0
GetData(w, old) == IF GetValid(w) THEN GetByte(w) ELSE old

\* neorv32_trng_get: return value
GetRet(w) == IF GetValid(w) THEN 0 ELSE -1

\* neorv32_trng_check_sim_mode: return value
SimModeRetMut(w) ==
  IF NonZero(BitAnd(w, BitOr(Shl1(TRNG_CTRL_SIM_MODE), Shl1(TRNG_CTRL_EN)))) THEN -1 ELSE 0
SimModeRet(w) == IF NonZero(BitAnd(w, Shl1(TRNG_CTRL_SIM_MODE))) THEN -1 ELSE 0

\* neorv32_trng_enable: the "activate" value, 1 << TRNG_CTRL_EN
EnableValue == Shl1(TRNG_CTRL_EN)

\* neorv32_trng_disable / the reset store of enable: 0
DisableValueMut == Shl1(TRNG_CTRL_FIFO_CLR)
DisableValue == {}

\* neorv32_trng_fifo_clear: CTRL | (1 << TRNG_CTRL_FIFO_CLR)
FifoClrValueMut(t) == Shl1(TRNG_CTRL_FIFO_CLR)
FifoClrValue(t) == BitOr(t, Shl1(TRNG_CTRL_FIFO_CLR))

\* for (i=0; i<256; i++)
LoopCondMut(k) == k < DelayIters - 1
LoopCond(k) == k < DelayIters

\* ------------------------------------------------------------------- state
Ctx == {"A", "B"}

VARIABLES
  ctrl,     \* NEORV32_TRNG.CTRL as the next read returns it
  soc,      \* NEORV32_SYSINFO.SOC
  data,     \* the caller's uint8_t output location (*data)
  pc,       \* per context: position inside the driver
  op,       \* per context: the function being run, or last run
  i,        \* per context: loop counter of enable
  tmp,      \* per context: the value of the last CTRL read (ct_reg / the |= operand)
  ret,      \* per context: return value of the last query
  nops,     \* per context: nop iterations executed in the current call
  wlog,     \* per context: stores to CTRL of the current call, with nops at the store
  q,        \* snapshot taken at entry of the last query call
  enPrev,   \* writable part left by the directly preceding enable call, if any
  mid       \* per context: stores of other contexts landed between its RMW read and write

vars == <<ctrl, soc, data, pc, op, i, tmp, ret, nops, wlog, q, enPrev, mid>>

NoQ == [valid |-> FALSE, ctrl |-> {}, soc |-> {}, data |-> 0, reads |-> 0]
NA == {-1}

DataPatterns == { {}, {1, 3, 4, 6}, DataField }
StatusBits == {TRNG_CTRL_FIFO_CLR, TRNG_CTRL_SIM_MODE, TRNG_CTRL_EN, TRNG_CTRL_VALID}
CtrlInit ==
  { BitOr(f, BitOr(d, r)) : f \in SUBSET StatusBits, d \in DataPatterns,
                            r \in SUBSET {ReservedBit} }
SocInit == SUBSET {SYSINFO_SOC_IO_TRNG, OtherSocBit}
DataInit == {0, 165}

InitLocals ==
  /\ pc = [c \in Ctx |-> "idle"]
  /\ op = [c \in Ctx |-> "none"]
  /\ i = [c \in Ctx |-> 0]
  /\ tmp = [c \in Ctx |-> {}]
  /\ ret = [c \in Ctx |-> 0]
  /\ nops = [c \in Ctx |-> 0]
  /\ wlog = [c \in Ctx |-> <<>>]
  /\ q = NoQ
  /\ enPrev = NA
  /\ mid = [c \in Ctx |-> {}]

Init ==
  /\ ctrl \in CtrlInit
  /\ soc \in SocInit
  /\ data \in DataInit
  /\ InitLocals

\* ----------------------------------------------------------------- helpers
Store(c, v) == <<[val |-> v, at |-> nops[c]]>>

\* a store by context c, seen by contexts that are between an RMW read and write
NoteStore(c, name) ==
  [d \in Ctx |-> IF d # c /\ pc[d] = "clr_write" THEN mid[d] \cup {name} ELSE mid[d]]


\* what a directly preceding enable call of context c left in the writable bits
\* (FIFO_CLEAR being self-clearing), NA when the preceding call was not enable
PrevEnable(c) ==
  IF op[c] = "enable" THEN (ctrl \cap Writable) \ {TRNG_CTRL_FIFO_CLR} ELSE NA

\* ------------------------------------------------------------ query calls
\* int neorv32_trng_available(void)
Available(c) ==
  /\ pc[c] = "idle"
  /\ op' = [op EXCEPT ![c] = "available"]
  /\ ret' = [ret EXCEPT ![c] = AvailableRet(soc)]
  /\ q' = [valid |-> TRUE, ctrl |-> ctrl, soc |-> soc, data |-> data, reads |-> 0]
  /\ wlog' = [wlog EXCEPT ![c] = <<>>]
  /\ nops' = [nops EXCEPT ![c] = 0]
  /\ enPrev' = NA
  /\ UNCHANGED <<ctrl, soc, data, pc, i, tmp, mid>>

\* a get that acknowledges the byte by storing to CTRL
GetConsume(c) ==
  /\ pc[c] = "idle"
  /\ op' = [op EXCEPT ![c] = "get"]
  /\ tmp' = [tmp EXCEPT ![c] = ctrl]
  /\ data' = GetData(ctrl, data)
  /\ ret' = [ret EXCEPT ![c] = GetRet(ctrl)]
  /\ ctrl' = RegWrite(ctrl, FifoClrValue(ctrl))
  /\ q' = [valid |-> TRUE, ctrl |-> ctrl, soc |-> soc, data |-> data, reads |-> 1]
  /\ wlog' = [wlog EXCEPT ![c] = <<>>]
  /\ nops' = [nops EXCEPT ![c] = 0]
  /\ enPrev' = NA
  /\ UNCHANGED <<soc, pc, i, mid>>

\* int neorv32_trng_get(uint8_t *data)
Get(c) ==
  /\ pc[c] = "idle"
  /\ op' = [op EXCEPT ![c] = "get"]
  /\ tmp' = [tmp EXCEPT ![c] = ctrl]
  /\ data' = GetData(ctrl, data)
  /\ ret' = [ret EXCEPT ![c] = GetRet(ctrl)]
  /\ q' = [valid |-> TRUE, ctrl |-> ctrl, soc |-> soc, data |-> data, reads |-> 1]
  /\ wlog' = [wlog EXCEPT ![c] = <<>>]
  /\ nops' = [nops EXCEPT ![c] = 0]
  /\ enPrev' = NA
  /\ UNCHANGED <<ctrl, soc, pc, i, mid>>

\* int neorv32_trng_check_sim_mode(void)
CheckSimMode(c) ==
  /\ pc[c] = "idle"
  /\ op' = [op EXCEPT ![c] = "check_sim_mode"]
  /\ tmp' = [tmp EXCEPT ![c] = ctrl]
  /\ ret' = [ret EXCEPT ![c] = SimModeRet(ctrl)]
  /\ q' = [valid |-> TRUE, ctrl |-> ctrl, soc |-> soc, data |-> data, reads |-> 1]
  /\ wlog' = [wlog EXCEPT ![c] = <<>>]
  /\ nops' = [nops EXCEPT ![c] = 0]
  /\ enPrev' = NA
  /\ UNCHANGED <<ctrl, soc, data, pc, i, mid>>

\* ---------------------------------------------------------- control calls
\* void neorv32_trng_disable(void)
Disable(c) ==
  /\ pc[c] = "idle"
  /\ op' = [op EXCEPT ![c] = "disable"]
  /\ ctrl' = RegWrite(ctrl, DisableValue)
  /\ nops' = [nops EXCEPT ![c] = 0]
  /\ wlog' = [wlog EXCEPT ![c] = <<[val |-> DisableValue, at |-> 0]>>]
  /\ mid' = NoteStore(c, "disable")
  /\ q' = NoQ
  /\ enPrev' = PrevEnable(c)
  /\ UNCHANGED <<soc, data, pc, i, tmp, ret>>

\* void neorv32_trng_fifo_clear(void): the read of CTRL |= ...
FifoClearRead(c) ==
  /\ pc[c] = "idle"
  /\ op' = [op EXCEPT ![c] = "fifo_clear"]
  /\ tmp' = [tmp EXCEPT ![c] = ctrl]
  /\ pc' = [pc EXCEPT ![c] = "clr_write"]
  /\ nops' = [nops EXCEPT ![c] = 0]
  /\ wlog' = [wlog EXCEPT ![c] = <<>>]
  /\ mid' = [mid EXCEPT ![c] = {}]
  /\ q' = NoQ
  /\ enPrev' = NA
  /\ UNCHANGED <<ctrl, soc, data, i, ret>>

\* the operand the |= of fifo_clear ORs into: the value it read
RmwOperandMut(c) == ctrl
RmwOperand(c) == tmp[c]

\* void neorv32_trng_fifo_clear(void): the write of CTRL |= ...; returns
FifoClearWrite(c) ==
  /\ pc[c] = "clr_write"
  /\ ctrl' = RegWrite(ctrl, FifoClrValue(RmwOperand(c)))
  /\ wlog' = [wlog EXCEPT ![c] = @ \o Store(c, FifoClrValue(RmwOperand(c)))]
  /\ pc' = [pc EXCEPT ![c] = "idle"]
  /\ mid' = NoteStore(c, "fifo_clear")
  /\ UNCHANGED <<soc, data, op, i, tmp, ret, nops, q, enPrev>>

\* void neorv32_trng_enable(void): NEORV32_TRNG.CTRL = 0; i = 0
EnableReset(c) ==
  /\ pc[c] = "idle"
  /\ op' = [op EXCEPT ![c] = "enable"]
  /\ enPrev' = PrevEnable(c)
  /\ ctrl' = RegWrite(ctrl, DisableValue)
  /\ nops' = [nops EXCEPT ![c] = 0]
  /\ wlog' = [wlog EXCEPT ![c] = <<[val |-> DisableValue, at |-> 0]>>]
  /\ i' = [i EXCEPT ![c] = 0]
  /\ pc' = [pc EXCEPT ![c] = "en_nop1"]
  /\ mid' = NoteStore(c, "enable")
  /\ q' = NoQ
  /\ UNCHANGED <<soc, data, tmp, ret>>

\* one iteration of either delay loop: asm volatile ("nop"); i++
EnableNop(c) ==
  /\ pc[c] \in {"en_nop1", "en_nop2"}
  /\ LoopCond(i[c])
  /\ i' = [i EXCEPT ![c] = @ + 1]
  /\ nops' = [nops EXCEPT ![c] = @ + 1]
  /\ UNCHANGED <<ctrl, soc, data, pc, op, tmp, ret, wlog, q, enPrev, mid>>

\* first loop exits; NEORV32_TRNG.CTRL = 1 << TRNG_CTRL_EN; i = 0
EnableActivate(c) ==
  /\ pc[c] = "en_nop1"
  /\ ~LoopCond(i[c])
  /\ ctrl' = RegWrite(ctrl, EnableValue)
  /\ wlog' = [wlog EXCEPT ![c] = @ \o Store(c, EnableValue)]
  /\ i' = [i EXCEPT ![c] = 0]
  /\ pc' = [pc EXCEPT ![c] = "en_nop2"]
  /\ mid' = NoteStore(c, "enable")
  /\ UNCHANGED <<soc, data, op, tmp, ret, nops, q, enPrev>>

\* second loop exits; neorv32_trng_fifo_clear() is entered and reads CTRL
EnableClear(c) ==
  /\ pc[c] = "en_nop2"
  /\ ~LoopCond(i[c])
  /\ tmp' = [tmp EXCEPT ![c] = ctrl]
  /\ pc' = [pc EXCEPT ![c] = "clr_write"]
  /\ mid' = [mid EXCEPT ![c] = {}]
  /\ UNCHANGED <<ctrl, soc, data, op, i, ret, nops, wlog, q, enPrev>>

\* ------------------------------------------------------------- environment
\* the peripheral resets FIFO_CLEAR by itself once the flush is done
HwAutoClear ==
  /\ TRNG_CTRL_FIFO_CLR \in ctrl
  /\ ctrl' = ctrl \ {TRNG_CTRL_FIFO_CLR}
  /\ q' = NoQ
  /\ UNCHANGED <<soc, data, pc, op, i, tmp, ret, nops, wlog, enPrev, mid>>

\* between calls the entropy source (or the test's mock) changes VALID and DATA;
\* what was observed of the previous call is forgotten
HwSetData ==
  /\ \A c \in Ctx : pc[c] = "idle"
  /\ \E v \in SUBSET {TRNG_CTRL_VALID}, d \in DataPatterns :
       /\ ctrl' = BitOr(ctrl \ (DataField \cup {TRNG_CTRL_VALID}), BitOr(v, d))
       /\ ctrl' # ctrl
  /\ pc' = [c \in Ctx |-> "idle"]
  /\ op' = [c \in Ctx |-> "none"]
  /\ i' = [c \in Ctx |-> 0]
  /\ tmp' = [c \in Ctx |-> {}]
  /\ ret' = [c \in Ctx |-> 0]
  /\ nops' = [c \in Ctx |-> 0]
  /\ wlog' = [c \in Ctx |-> <<>>]
  /\ q' = NoQ
  /\ enPrev' = NA
  /\ mid' = [c \in Ctx |-> {}]
  /\ UNCHANGED <<soc, data>>

\* ---------------------------------------------------------- specifications
DriverStep(c) ==
  \/ Available(c)
  \/ Get(c)
  \/ CheckSimMode(c)
  \/ Disable(c)
  \/ FifoClearRead(c)
  \/ FifoClearWrite(c)
  \/ EnableReset(c)
  \/ EnableNop(c)
  \/ EnableActivate(c)
  \/ EnableClear(c)

\* single-context, cooperative use: context A makes every call
Next ==
  \/ DriverStep("A")
  \/ HwAutoClear
  \/ HwSetData

Spec == Init /\ [][Next]_vars


\* two contexts, one call each, no serialization between them
Continue(c) ==
  \/ FifoClearWrite(c)
  \/ EnableNop(c)
  \/ EnableActivate(c)
  \/ EnableClear(c)

InitConc ==
  /\ ctrl \in SUBSET StatusBits
  /\ soc = {SYSINFO_SOC_IO_TRNG}
  /\ data = 0
  /\ InitLocals

NextConc ==
  \/ op["A"] = "none" /\ (EnableReset("A") \/ FifoClearRead("A") \/ Disable("A"))
  \/ Continue("A")
  \/ op["B"] = "none" /\ (FifoClearRead("B") \/ Disable("B"))
  \/ FifoClearWrite("B")
  \/ HwAutoClear

SpecConc == InitConc /\ [][NextConc]_vars

\* the register after a whole call run alone from register value w
SeqCall(o, w) ==
  CASE o = "disable" -> RegWrite(w, DisableValue)
    [] o = "fifo_clear" -> RegWrite(w, FifoClrValue(w))
    [] o = "enable" ->
         LET w1 == RegWrite(RegWrite(w, DisableValue), EnableValue)
         IN RegWrite(w1, FifoClrValue(w1))


\* ================================================================= claims
Queries == {"available", "get", "check_sim_mode"}
Returned(c, o) == pc[c] = "idle" /\ op[c] = o

RECURSIVE FieldSum(_, _)
\* the DATA field of a register value read as an unsigned number: bit
\* TRNG_CTRL_DATA_LSB + k of the word weighs 2^k, for k up to the field width
FieldSum(w, k) ==
  IF k > TRNG_CTRL_DATA_MSB - TRNG_CTRL_DATA_LSB THEN 0
  ELSE (IF TRNG_CTRL_DATA_LSB + k \in w THEN 2^k ELSE 0) + FieldSum(w, k + 1)
DataFieldValue(w) == FieldSum(w, 0)

\* C1: after neorv32_trng_get has returned, its result is 0 exactly when VALID
\* was set in the one register value it read (which is the register's value at
\* the call), it is -1 otherwise, and on 0 the output byte equals the 8-bit
\* DATA field of that same value, whatever the bits above the field.
C1_GetValidIffSuccess ==
  \A c \in Ctx :
    Returned(c, "get") =>
      /\ ret[c] \in {0, -1}
      /\ (ret[c] = 0) <=> (TRNG_CTRL_VALID \in tmp[c])
      /\ q.valid => tmp[c] = q.ctrl
      /\ ret[c] = 0 => data = DataFieldValue(tmp[c])

C1_Witness ==
  /\ Returned("A", "get")
  /\ ret["A"] = 0
  /\ ReservedBit \in tmp["A"]
  /\ TRNG_CTRL_EN \in tmp["A"]
  /\ data = 90

\* C2: a neorv32_trng_get called with VALID clear returns -1 and leaves the
\* output location at the value it had before the call.
C2_GetNotReadyKeepsOutput ==
  \A c \in Ctx :
    (Returned(c, "get") /\ q.valid /\ TRNG_CTRL_VALID \notin q.ctrl) =>
      /\ ret[c] = -1
      /\ data = q.data

C2_Witness ==
  /\ Returned("A", "get")
  /\ q.valid
  /\ TRNG_CTRL_VALID \notin q.ctrl
  /\ q.ctrl \cap DataField = DataField
  /\ q.data = 165
  /\ data = 165

\* C3: once neorv32_trng_enable has returned and FIFO_CLEAR has been
\* auto-cleared, the writable part of the control register is exactly ENABLE;
\* when the call directly followed another enable, that is also what the
\* earlier call had left.
C3_EnableLeavesOnlyEnable ==
  \A c \in Ctx :
    (Returned(c, "enable") /\ TRNG_CTRL_FIFO_CLR \notin ctrl) =>
      /\ ctrl \cap Writable = {TRNG_CTRL_EN}
      /\ enPrev # NA => ctrl \cap Writable = enPrev

C3_Witness ==
  /\ Returned("A", "enable")
  /\ TRNG_CTRL_FIFO_CLR \notin ctrl
  /\ enPrev = {TRNG_CTRL_EN}
  /\ TRNG_CTRL_SIM_MODE \in ctrl

\* C4: neorv32_trng_disable makes exactly one store, of the all-zero word, with
\* no delay iteration before it, and afterwards ENABLE and FIFO_CLEAR are both
\* clear; this also holds right after an enable call.
C4_DisableWritesZero ==
  \A c \in Ctx :
    Returned(c, "disable") =>
      /\ wlog[c] = <<[val |-> {}, at |-> 0]>>
      /\ nops[c] = 0
      /\ ctrl \cap Writable = {}

C4_Witness ==
  /\ Returned("A", "disable")
  /\ enPrev = {TRNG_CTRL_EN}
  /\ ctrl \cap Writable = {}

\* C5: neorv32_trng_fifo_clear makes exactly one store; the stored word has
\* FIFO_CLEAR set and agrees in every other bit with the word the call read.
C5_FifoClearOrsIn ==
  \A c \in Ctx :
    Returned(c, "fifo_clear") =>
      /\ Len(wlog[c]) = 1
      /\ TRNG_CTRL_FIFO_CLR \in wlog[c][1].val
      /\ \A b \in WordBits \ {TRNG_CTRL_FIFO_CLR} :
           (b \in wlog[c][1].val) <=> (b \in tmp[c])

C5_Witness ==
  /\ Returned("A", "fifo_clear")
  /\ TRNG_CTRL_EN \in tmp["A"]
  /\ TRNG_CTRL_FIFO_CLR \notin tmp["A"]
  /\ ReservedBit \in tmp["A"]
  /\ TRNG_CTRL_EN \in ctrl

\* C6: neorv32_trng_check_sim_mode returns non-zero exactly when SIM_MODE is
\* set in the register; its result is -1 or 0 by that bit alone.
C6_SimModeIffBit ==
  \A c \in Ctx :
    Returned(c, "check_sim_mode") =>
      /\ (ret[c] # 0) <=> (TRNG_CTRL_SIM_MODE \in tmp[c])
      /\ ret[c] = (IF TRNG_CTRL_SIM_MODE \in tmp[c] THEN -1 ELSE 0)
      /\ q.valid => tmp[c] = q.ctrl

C6_Witness ==
  /\ Returned("A", "check_sim_mode")
  /\ ret["A"] = 0
  /\ {TRNG_CTRL_EN, TRNG_CTRL_VALID, TRNG_CTRL_FIFO_CLR} \subseteq tmp["A"]
  /\ tmp["A"] \cap DataField # {}

\* C7: neorv32_trng_available returns 1 when the TRNG bit of the capability
\* register is set and 0 otherwise, whatever the other capability bits and the
\* control register hold.
C7_AvailableIffSocBit ==
  \A c \in Ctx :
    Returned(c, "available") =>
      ret[c] = (IF SYSINFO_SOC_IO_TRNG \in soc THEN 1 ELSE 0)

C7_Witness ==
  /\ Returned("A", "available")
  /\ ret["A"] = 0
  /\ OtherSocBit \in soc
  /\ TRNG_CTRL_EN \in ctrl

\* C8: a query call (get, check_sim_mode, available) makes no store and at
\* most one read of the control register, and both registers hold after the
\* call what they held before it.
C8_QueriesDoNotWrite ==
  q.valid =>
    /\ ctrl = q.ctrl
    /\ soc = q.soc
    /\ q.reads <= 1
    /\ \A c \in Ctx : op[c] \in Queries => (wlog[c] = <<>> /\ nops[c] = 0 /\ pc[c] = "idle")

C8_Witness ==
  /\ q.valid
  /\ Returned("A", "get")
  /\ ret["A"] = 0
  /\ TRNG_CTRL_EN \in ctrl
  /\ TRNG_CTRL_VALID \in ctrl

\* the stores an enable call has made when it stands at a given place
EnableStores(c) ==
  LET w0 == <<[val |-> {}, at |-> 0]>>
      w1 == w0 \o <<[val |-> {TRNG_CTRL_EN}, at |-> DelayIters]>>
      w2 == w1 \o <<[val |-> tmp[c] \cup {TRNG_CTRL_FIFO_CLR}, at |-> 2 * DelayIters]>>
  IN CASE pc[c] = "en_nop1" -> w0
       [] pc[c] = "en_nop2" -> w1
       [] pc[c] = "clr_write" -> w1
       [] pc[c] = "idle" -> w2

EnableOrder ==
  \A c \in Ctx :
    op[c] = "enable" =>
      /\ wlog[c] = EnableStores(c)
      /\ pc[c] = "en_nop1" => nops[c] = i[c] /\ i[c] <= DelayIters
      /\ pc[c] = "en_nop2" => nops[c] = DelayIters + i[c] /\ i[c] <= DelayIters
      /\ pc[c] \in {"clr_write", "idle"} => nops[c] = 2 * DelayIters
      /\ pc[c] = "en_nop1" => TRNG_CTRL_EN \notin ctrl
      /\ pc[c] \in {"en_nop1", "en_nop2"} => TRNG_CTRL_FIFO_CLR \notin ctrl
      /\ pc[c] = "clr_write" => tmp[c] = ctrl /\ TRNG_CTRL_EN \in tmp[c]
      /\ pc[c] # "idle" => ENABLED DriverStep(c)

\* steps an enable call still has to take
Remaining(c) ==
  CASE pc[c] = "en_nop1" -> (DelayIters - i[c]) + DelayIters + 3
    [] pc[c] = "en_nop2" -> (DelayIters - i[c]) + 2
    [] pc[c] = "clr_write" -> 1
    [] pc[c] = "idle" -> 0

EnableProgress ==
  \A c \in Ctx :
    (op[c] = "enable" /\ pc[c] # "idle" /\ <<pc[c], i[c]>>' # <<pc[c], i[c]>>) =>
      /\ op'[c] = "enable"
      /\ Remaining(c)' < Remaining(c)

\* C9: an enable call stores 0, runs DelayIters nop iterations, stores a word
\* with only ENABLE set, runs DelayIters more iterations, and then makes the
\* read-modify-write that sets FIFO_CLEAR; ENABLE is not set in the register
\* during the first delay, FIFO_CLEAR is not set during either delay, the call
\* can always take its next step and every step brings it nearer to its return.
C9_EnableSequence == []EnableOrder /\ [][EnableProgress]_vars

C9_Witness ==
  /\ Returned("A", "enable")
  /\ Len(wlog["A"]) = 3
  /\ wlog["A"][3].at = 2 * DelayIters
  /\ TRNG_CTRL_FIFO_CLR \in ctrl
  /\ TRNG_CTRL_EN \in ctrl

\* the register values two calls can leave when one runs wholly before the
\* other, from any register value, the self-clearing of FIFO_CLEAR taking place
\* at any moment or not at all
AutoCleared(S) == S \cup {w \ {TRNG_CTRL_FIFO_CLR} : w \in S}
SerialFinals(o1, o2) ==
  LET Run(first, second) ==
        UNION { AutoCleared({SeqCall(second, w1)}) :
                  w1 \in UNION { AutoCleared({SeqCall(first, w0)}) : w0 \in AutoCleared(CtrlInit) } }
  IN Run(o1, o2) \cup Run(o2, o1)

BothDone == \A c \in Ctx : pc[c] = "idle" /\ op[c] # "none"

\* C10: when one context's disable lands between the read and the write of
\* another context's pool clear (its own call or the one ending enable), the
\* later write restores the ENABLE bit it had read; if that bit was set and the
\* calls were fifo_clear and disable, the register ends in a value that neither
\* serial order of the two calls produces.
C10_LostDisable ==
  \A c \in Ctx, d \in Ctx :
    (c # d /\ BothDone /\ op[d] = "disable" /\ "disable" \in mid[c]) =>
      /\ (TRNG_CTRL_EN \in ctrl) <=> (TRNG_CTRL_EN \in tmp[c])
      /\ (op[c] = "fifo_clear" /\ TRNG_CTRL_EN \in tmp[c]) =>
            ctrl \notin SerialFinals("fifo_clear", "disable")

C10_Witness ==
  /\ BothDone
  /\ op["A"] = "fifo_clear"
  /\ op["B"] = "disable"
  /\ "disable" \in mid["A"]
  /\ TRNG_CTRL_EN \in ctrl
  /\ ctrl \notin SerialFinals("fifo_clear", "disable")

====
